---- MODULE Spec2Model ----
(***************************************************************************)
(* Certificate lifecycle scheduler of Task_Automation.                     *)
(*                                                                         *)
(* Storage (MongoDB through Mongoose) is modelled for ONE event: whether   *)
(* the event and its CertificateTemplate exist, the participants of the    *)
(* event with their certificateSent flag, and the template's               *)
(* generatedCertificates array.  Timestamps (generatedAt, sentAt,          *)
(* certificateSentAt) are abstracted to "set" (TRUE) / "absent" (FALSE).   *)
(* Instants are counted in half hours since the epoch (UTC), which is      *)
(* the finest grain the IST offset of 5.5 h needs.  A civil date is        *)
(* represented by the instant of its midnight, as the code does with       *)
(* new Date(y, m, d) and Date.UTC(y, m, d).                                *)
(*                                                                         *)
(* Every step function is an async function: it is modelled as a task      *)
(* that advances between await points (Start, one step per participant,    *)
(* the final template save, Return).                                       *)
(***************************************************************************)
EXTENDS Integers, Sequences, FiniteSets, TLC

\* ------------------------------------------------------------------ bounds
NumParticipants == 2
MaxRecords == 4
MaxEmails == 2
MaxDays == 2
NumEvents == 3

\* --------------------------------------------------------------- constants
HalfHoursPerDay == 48
ISTOffset == 11
\* times of day of the per-event trigger, in half hours: 23:59 in
\* certificateScheduler.js, rounded down to the grid, which keeps scheduleDate < now
\* exact at every instant of the grid; 10:30 and 11:55 in its earlier revision,
\* the latter rounded up, which keeps sendDelay > 0 exact
GenSlotCurrent == 47
GenSlotEarlier == 21
SendSlotEarlier == 24

Participants == 1..NumParticipants

VARIABLES
  now,                   \* current instant (half hours, UTC)
  eventDate,             \* event.date, an instant
  hostOffset,            \* offset of the host's local time zone (half hours)
  eventExists,           \* Event.findById(eventId) finds the event
  hasTemplate,           \* Certificate.findOne({eventId}) finds a template
  nMembers,              \* participants 1..nMembers belong to the event
  certificateSent,       \* Participant.certificateSent, persisted
  generatedCertificates, \* the template's records, persisted
  delivered,             \* emails accepted by the transport, per participant
  task,                  \* the invocations in progress
  faulty,                \* storage writes may fail
  overlap,               \* two invocations may interleave at await points
  selected,              \* outcome of the last evaluation of a trigger's event filter
  sink,                  \* ioInstance: "none" (null), "ok", or "throws" (emit throws)
  collab,                \* renderer and mail transport: "flaky" or "working"
  othersToday,           \* the other stored events that are dated today
  job,                   \* the recurring trigger: the firing in progress
  timer                  \* the per-event trigger: its timers and its handle

vars == <<now, eventDate, hostOffset, eventExists, hasTemplate, nMembers,
          certificateSent, generatedCertificates, delivered, task, faulty,
          overlap, selected, sink, collab, othersToday, job, timer>>

\* what no step function writes
env == <<now, eventDate, hostOffset, eventExists, hasTemplate, nMembers,
         faulty, overlap, selected, sink, collab, othersToday, job, timer>>

Tasks == {1, 2}

Members == 1..nMembers

\* ------------------------------------------------------------ time policy
\* floor((t + offset) / day) * day: midnight of the civil date of t
DayStart(t, offset) == ((t + offset) \div HalfHoursPerDay) * HalfHoursPerDay

\* getISTDate: shifts by the IST offset and keeps the UTC year/month/day
getISTDate(date) == DayStart(date, ISTOffset)

\* new Date(d.getFullYear(), d.getMonth(), d.getDate()): host-local civil date
LocalDateOnly(date) == DayStart(date, hostOffset) - hostOffset

\* the event filter of scheduleCertificateGeneration / scheduleCertificateSending
FilterIST(evDate, nowInstant) == getISTDate(evDate) = getISTDate(nowInstant)

\* the event filter of startDailyScheduler's generateJob / sendJob
FilterLocal(evDate, nowInstant) == LocalDateOnly(evDate) = LocalDateOnly(nowInstant)

\* ----------------------------------------------------------------- records
Rec(p, path, gen, sent) ==
  [participantId |-> p, certificatePath |-> path, generatedAt |-> gen, sentAt |-> sent]

\* ascending sequence of a finite set of numbers (the order find() returns)
RECURSIVE SetToSeq(_)
SetToSeq(S) ==
  IF S = {} THEN <<>>
  ELSE LET m == CHOOSE x \in S : \A y \in S : x <= y
       IN <<m>> \o SetToSeq(S \ {m})

\* Array.prototype.find / findIndex on participantId: first index, 0 when none
FindIndex(doc, p) ==
  IF \E i \in DOMAIN doc : doc[i].participantId = p
  THEN CHOOSE i \in DOMAIN doc :
         /\ doc[i].participantId = p
         /\ \A j \in DOMAIN doc : doc[j].participantId = p => i <= j
  ELSE 0

CountTrue(s) == Cardinality({i \in DOMAIN s : s[i]})

Min(a, b) == IF a < b THEN a ELSE b

\* ------------------------------------------------------------------- tasks
NoResult == [kind |-> "none", success |-> "absent", total |-> 0, successful |-> 0, failed |-> 0]

Idle ==
  [op |-> "idle", pc |-> "idle", queue |-> <<>>, doc |-> <<>>, base |-> 0,
   touched |-> {}, pending |-> {}, rendered |-> {}, renderFailed |-> {},
   emailed |-> {}, emailOk |-> {}, attempts |-> [p \in Participants |-> 0],
   ids |-> {},
   results |-> <<>>, sentCount |-> 0, total |-> 0,
   startRecs |-> <<>>, startSent |-> {}, result |-> NoResult]

\* a result object without counts
Plain(kind, success) ==
  [kind |-> kind, success |-> success, total |-> 0, successful |-> 0, failed |-> 0]

\* a result object with counts
Counts(success, total, successful, failed) ==
  [kind |-> "counts", success |-> success, total |-> total,
   successful |-> successful, failed |-> failed]

\* the invocation begins: snapshot of what it read
Begin(op) ==
  [Idle EXCEPT !.op = op, !.startRecs = generatedCertificates,
               !.startSent = {p \in Participants : certificateSent[p]}]

\* the invocation returns r without entering its loop
Finished(op, r) == [Begin(op) EXCEPT !.pc = "done", !.result = r]

\* the steps that generate, the steps that dispatch
GenOps == {"helperGen", "genEvt", "genSend"}

SendOps == {"helperSend", "sendEvt"}

\* an invocation starts when none is in progress; two invocations of the class
\* named by overlap (two triggers firing for the same event) may interleave
CanStart(t, class) ==
  /\ task[t].pc = "idle"
  /\ \A u \in Tasks : u < t => task[u].pc # "idle"
  /\ \/ \A u \in Tasks : task[u].pc = "idle"
     \/ /\ overlap = class
        /\ \A u \in Tasks : task[u].pc # "idle" =>
             task[u].op \in (IF class = "send" THEN SendOps ELSE GenOps)

\* Participant.find({eventId, certificateSent: {$ne: true}})
NotSent == {p \in Members : ~certificateSent[p]}


\* what certificate.save() leaves in storage: positional $set of the elements
\* modified in memory, $push of the elements appended in memory
SaveDoc(tk) ==
  [i \in 1..Len(generatedCertificates) |->
     IF i \in tk.touched THEN tk.doc[i] ELSE generatedCertificates[i]]
  \o SubSeq(tk.doc, tk.base + 1, Len(tk.doc))

\* the loop moves to its next element, or leaves for the final save
Advance(tk) ==
  [tk EXCEPT !.queue = Tail(@), !.pc = IF Len(tk.queue) = 1 THEN "save" ELSE "loop"]

\* an invocation that enters its loop with the template loaded in memory
Loaded(op, pend, q) ==
  [Begin(op) EXCEPT !.pc = "loop", !.queue = q, !.pending = pend, !.total = Len(q),
                    !.doc = generatedCertificates, !.base = Len(generatedCertificates)]

\* outcomes of the collaborators
RenderOutcomes == IF collab = "working" THEN {"ok"} ELSE {"ok", "fail", "throw"}

EmailOutcomes ==
  (IF collab = "working" THEN {"sent"} ELSE {"sent", "transportFail"})
  \cup (IF faulty THEN {"saveFail"} ELSE {})

SaveOutcomes == IF faulty THEN {"ok", "saveFail"} ELSE {"ok"}

LoggedSaveOutcomes == IF faulty THEN {"ok", "saveFail", "logFail"} ELSE {"ok"}

\* ------------------------------------------------- emailService.sendCertificateEmail
\* transporter.sendMail resolved: the email left
EmailHandedOver(outcome) == outcome \in {"sent", "saveFail"}

\* the value of the returned success field
EmailSuccess(outcome) == outcome = "sent"

DeliveredAfter(p, outcome) ==
  IF EmailHandedOver(outcome)
  THEN [delivered EXCEPT ![p] = Min(@ + 1, MaxEmails)]
  ELSE delivered

\* mutant: the participant is never marked as sent
CertificateSentNeverSet(p, outcome) == certificateSent

CertificateSentAfter(p, outcome) ==
  IF outcome = "sent" THEN [certificateSent EXCEPT ![p] = TRUE] ELSE certificateSent

\* ------------------------------ certificateHelper.generateCertificatesForNewParticipants
\* the call with participantIds: Participant.find({_id: {$in: participantIds},
\* eventId, certificateSent: {$ne: true}}); null or [] selects on the event alone
\* mutant: participantIds is not used
HelperGenSelectedAll(ids) == NotSent

HelperGenSelected(ids) == IF ids = {} THEN NotSent ELSE NotSent \cap ids

\* mutant: an event dated before today is put off like one dated after today
HelperGenBeginForTodayOnly(ids) ==
  IF ~eventExists
  THEN [Finished("helperGen", Plain("eventNotFound", "false")) EXCEPT !.ids = ids]
  ELSE IF getISTDate(eventDate) # getISTDate(now)
  THEN [Finished("helperGen", Plain("scheduled", "true")) EXCEPT !.ids = ids]
  ELSE IF HelperGenSelected(ids) = {}
  THEN [Finished("helperGen", Plain("nothingPending", "true")) EXCEPT !.ids = ids]
  ELSE IF ~hasTemplate
  THEN [Finished("helperGen", Plain("templateNotFound", "false")) EXCEPT !.ids = ids]
  ELSE [Loaded("helperGen", HelperGenSelected(ids), SetToSeq(HelperGenSelected(ids)))
          EXCEPT !.ids = ids]

HelperGenBeginFor(ids) ==
  IF ~eventExists
  THEN [Finished("helperGen", Plain("eventNotFound", "false")) EXCEPT !.ids = ids]
  ELSE IF getISTDate(eventDate) > getISTDate(now)
  THEN [Finished("helperGen", Plain("scheduled", "true")) EXCEPT !.ids = ids]
  ELSE IF HelperGenSelected(ids) = {}
  THEN [Finished("helperGen", Plain("nothingPending", "true")) EXCEPT !.ids = ids]
  ELSE IF ~hasTemplate
  THEN [Finished("helperGen", Plain("templateNotFound", "false")) EXCEPT !.ids = ids]
  ELSE [Loaded("helperGen", HelperGenSelected(ids), SetToSeq(HelperGenSelected(ids)))
          EXCEPT !.ids = ids]

\* the call with the event alone, as the triggers make it
HelperGenBegin ==
  IF ~eventExists THEN Finished("helperGen", Plain("eventNotFound", "false"))
  ELSE IF getISTDate(eventDate) > getISTDate(now)
  THEN Finished("helperGen", Plain("scheduled", "true"))
  ELSE IF NotSent = {} THEN Finished("helperGen", Plain("nothingPending", "true"))
  ELSE IF ~hasTemplate THEN Finished("helperGen", Plain("templateNotFound", "false"))
  ELSE Loaded("helperGen", NotSent, SetToSeq(NotSent))

\* mutant: a failed render leaves no per-participant result
HelperGenRenderUnrecorded(tk, p, outcome) ==
  IF outcome = "ok"
  THEN [tk EXCEPT !.doc = Append(@, Rec(p, TRUE, TRUE, FALSE)),
                  !.results = Append(@, TRUE),
                  !.rendered = @ \cup {p}]
  ELSE [tk EXCEPT !.rendered = @ \cup {p}, !.renderFailed = @ \cup {p}]

HelperGenRender(tk, p, outcome) ==
  IF outcome = "ok"
  THEN [tk EXCEPT !.doc = Append(@, Rec(p, TRUE, TRUE, FALSE)),
                  !.results = Append(@, TRUE),
                  !.rendered = @ \cup {p}]
  ELSE [tk EXCEPT !.results = Append(@, FALSE),
                  !.rendered = @ \cup {p},
                  !.renderFailed = @ \cup {p}]

HelperGenResult(tk) ==
  Counts("true", Len(tk.results), CountTrue(tk.results),
         Len(tk.results) - CountTrue(tk.results))

HelperGenStart(t) ==
  /\ CanStart(t, "gen")
  /\ HelperGenBegin.pc = "loop" =>
       Len(generatedCertificates) + Cardinality(NotSent) <= MaxRecords
  /\ task' = [task EXCEPT ![t] = HelperGenBegin]
  /\ UNCHANGED <<env, certificateSent, generatedCertificates, delivered>>

\* mutant: a successful render also marks the participant as sent
HelperGenStepMarksSent(t, outcome) ==
  /\ task[t].op = "helperGen"
  /\ task[t].pc = "loop"
  /\ task' = [task EXCEPT ![t] = Advance(HelperGenRender(@, Head(@.queue), outcome))]
  /\ certificateSent' =
       IF outcome = "ok" THEN [certificateSent EXCEPT ![Head(task[t].queue)] = TRUE]
       ELSE certificateSent
  /\ UNCHANGED <<env, generatedCertificates, delivered>>

\* a caller passes participantIds
HelperGenStartFor(t, ids) ==
  /\ CanStart(t, "gen")
  /\ HelperGenBeginFor(ids).pc = "loop" =>
       Len(generatedCertificates) + Cardinality(HelperGenSelected(ids)) <= MaxRecords
  /\ task' = [task EXCEPT ![t] = HelperGenBeginFor(ids)]
  /\ UNCHANGED <<env, certificateSent, generatedCertificates, delivered>>

HelperGenStep(t, outcome) ==
  /\ task[t].op = "helperGen"
  /\ task[t].pc = "loop"
  /\ task' = [task EXCEPT ![t] = Advance(HelperGenRender(@, Head(@.queue), outcome))]
  /\ UNCHANGED <<env, certificateSent, generatedCertificates, delivered>>

HelperGenSave(t, outcome) ==
  /\ task[t].op = "helperGen"
  /\ task[t].pc = "save"
  /\ IF outcome = "ok"
     THEN /\ generatedCertificates' = SaveDoc(task[t])
          /\ task' = [task EXCEPT ![t].pc = "done", ![t].result = HelperGenResult(task[t])]
     ELSE /\ UNCHANGED generatedCertificates
          /\ task' = [task EXCEPT ![t].pc = "done", ![t].result = Plain("error", "false")]
  /\ UNCHANGED <<env, certificateSent, delivered>>

\* ------------------------------------------ certificateHelper.sendGeneratedCertificates
HelperSendBegin ==
  IF ~eventExists THEN Finished("helperSend", Plain("eventNotFound", "false"))
  ELSE IF ~hasTemplate THEN Finished("helperSend", Plain("templateNotFound", "false"))
  ELSE IF NotSent = {} THEN Finished("helperSend", Plain("nothingPending", "true"))
  ELSE Loaded("helperSend", NotSent, SetToSeq(NotSent))

\* generatedCert found with a certificatePath: index of the record, else 0
HelperSendRecord(tk, p) ==
  LET idx == FindIndex(tk.doc, p)
  IN IF idx # 0 /\ tk.doc[idx].certificatePath THEN idx ELSE 0

\* mutant: a successful send is not counted
HelperSendEmailUncounted(tk, p, outcome) ==
  LET idx == HelperSendRecord(tk, p)
  IN IF idx = 0 THEN [tk EXCEPT !.results = Append(@, FALSE)]
     ELSE IF EmailSuccess(outcome)
     THEN [tk EXCEPT !.doc[idx].sentAt = TRUE,
                     !.touched = @ \cup {idx},
                     !.results = Append(@, TRUE),
                     !.emailed = @ \cup {p},
                     !.attempts[p] = @ + 1,
                     !.emailOk = @ \cup {p}]
     ELSE [tk EXCEPT !.results = Append(@, FALSE),
                     !.emailed = @ \cup {p},
                     !.attempts[p] = @ + 1]

HelperSendEmail(tk, p, outcome) ==
  LET idx == HelperSendRecord(tk, p)
  IN IF idx = 0 THEN [tk EXCEPT !.results = Append(@, FALSE)]
     ELSE IF EmailSuccess(outcome)
     THEN [tk EXCEPT !.doc[idx].sentAt = TRUE,
                     !.touched = @ \cup {idx},
                     !.results = Append(@, TRUE),
                     !.sentCount = @ + 1,
                     !.emailed = @ \cup {p},
                     !.attempts[p] = @ + 1,
                     !.emailOk = @ \cup {p}]
     ELSE [tk EXCEPT !.results = Append(@, FALSE),
                     !.emailed = @ \cup {p},
                     !.attempts[p] = @ + 1]

HelperSendResult(tk) ==
  Counts("true", Len(tk.results), tk.sentCount, Len(tk.results) - tk.sentCount)

HelperSendStart(t) ==
  /\ CanStart(t, "send")
  /\ task' = [task EXCEPT ![t] = HelperSendBegin]
  /\ UNCHANGED <<env, certificateSent, generatedCertificates, delivered>>

HelperSendStep(t, outcome) ==
  /\ task[t].op = "helperSend"
  /\ task[t].pc = "loop"
  /\ LET p == Head(task[t].queue)
         called == HelperSendRecord(task[t], p) # 0
     IN /\ task' = [task EXCEPT ![t] = Advance(HelperSendEmail(@, p, outcome))]
        /\ delivered' = IF called THEN DeliveredAfter(p, outcome) ELSE delivered
        /\ certificateSent' =
             IF called THEN CertificateSentAfter(p, outcome) ELSE certificateSent
  /\ UNCHANGED <<env, generatedCertificates>>

HelperSendSave(t, outcome) ==
  /\ task[t].op = "helperSend"
  /\ task[t].pc = "save"
  /\ IF outcome = "ok"
     THEN /\ generatedCertificates' = SaveDoc(task[t])
          /\ task' = [task EXCEPT ![t].pc = "done", ![t].result = HelperSendResult(task[t])]
     ELSE /\ UNCHANGED generatedCertificates
          /\ task' = [task EXCEPT ![t].pc = "done", ![t].result = Plain("error", "false")]
  /\ UNCHANGED <<env, certificateSent, delivered>>

\* the caller has the result: the invocation is over
Return(t) ==
  /\ task[t].pc = "done"
  /\ task' = [task EXCEPT ![t] = Idle]
  /\ UNCHANGED <<env, certificateSent, generatedCertificates, delivered>>

\* the process stops while the invocation is between two participants of its
\* loop: what the invocation held in memory is lost, storage stays as it is
Stop(t) ==
  /\ task[t].pc = "loop"
  /\ task' = [task EXCEPT ![t] = Idle]
  /\ UNCHANGED <<env, certificateSent, generatedCertificates, delivered>>

\* --------------------------- certificateScheduler.generateAndSendCertificatesForEvent
\* the callers (the daily job bodies, the per-event timer) pass today's events
GenSendOutcomes ==
  (IF collab = "working" THEN {} ELSE {"renderFail"}) \cup EmailOutcomes

GenSendBegin ==
  IF ~hasTemplate THEN Finished("genSend", Plain("empty", "absent"))
  ELSE IF NotSent = {} THEN Finished("genSend", Plain("empty", "absent"))
  ELSE Loaded("genSend", NotSent, SetToSeq(NotSent))

\* mutant: the email is sent whatever the render returned
GenSendProcessUnchecked(tk, p, outcome) ==
  IF outcome = "renderFail"
  THEN [tk EXCEPT !.results = Append(@, FALSE),
                  !.rendered = @ \cup {p},
                  !.renderFailed = @ \cup {p},
                  !.emailed = @ \cup {p},
                  !.attempts[p] = @ + 1]
  ELSE IF EmailSuccess(outcome)
  THEN [tk EXCEPT !.doc = Append(@, Rec(p, FALSE, FALSE, TRUE)),
                  !.results = Append(@, TRUE),
                  !.rendered = @ \cup {p},
                  !.emailed = @ \cup {p},
                  !.attempts[p] = @ + 1,
                  !.emailOk = @ \cup {p}]
  ELSE [tk EXCEPT !.results = Append(@, FALSE),
                  !.rendered = @ \cup {p},
                  !.emailed = @ \cup {p},
                  !.attempts[p] = @ + 1]

GenSendProcess(tk, p, outcome) ==
  IF outcome = "renderFail"
  THEN [tk EXCEPT !.results = Append(@, FALSE),
                  !.rendered = @ \cup {p},
                  !.renderFailed = @ \cup {p}]
  ELSE IF EmailSuccess(outcome)
  THEN [tk EXCEPT !.doc = Append(@, Rec(p, FALSE, FALSE, TRUE)),
                  !.results = Append(@, TRUE),
                  !.rendered = @ \cup {p},
                  !.emailed = @ \cup {p},
                  !.attempts[p] = @ + 1,
                  !.emailOk = @ \cup {p}]
  ELSE [tk EXCEPT !.results = Append(@, FALSE),
                  !.rendered = @ \cup {p},
                  !.emailed = @ \cup {p},
                  !.attempts[p] = @ + 1]

GenSendResult(tk) ==
  Counts("absent", Len(tk.results), CountTrue(tk.results),
         Len(tk.results) - CountTrue(tk.results))

GenSendStart(t) ==
  /\ CanStart(t, "gen")
  /\ FilterLocal(eventDate, now)
  /\ GenSendBegin.pc = "loop" =>
       Len(generatedCertificates) + Cardinality(NotSent) <= MaxRecords
  /\ task' = [task EXCEPT ![t] = GenSendBegin]
  /\ UNCHANGED <<env, certificateSent, generatedCertificates, delivered>>

GenSendStep(t, outcome) ==
  /\ task[t].op = "genSend"
  /\ task[t].pc = "loop"
  /\ LET p == Head(task[t].queue)
         called == outcome # "renderFail"
     IN /\ task' = [task EXCEPT ![t] = Advance(GenSendProcess(@, p, outcome))]
        /\ delivered' = IF called THEN DeliveredAfter(p, outcome) ELSE delivered
        /\ certificateSent' =
             IF called THEN CertificateSentAfter(p, outcome) ELSE certificateSent
  /\ UNCHANGED <<env, generatedCertificates>>

\* certificateTemplate.save(), then ActivityLog.create(), then
\* ioInstance.emit() when ioInstance is set; whatever is thrown is rethrown
LoggedSave(t, op, outcome, r) ==
  /\ task[t].op = op
  /\ task[t].pc = "save"
  /\ generatedCertificates' =
       IF outcome = "saveFail" THEN generatedCertificates ELSE SaveDoc(task[t])
  /\ task' = [task EXCEPT ![t].pc = "done",
                          ![t].result = IF outcome = "ok" /\ sink # "throws" THEN r
                                        ELSE Plain("threw", "absent")]
  /\ UNCHANGED <<env, certificateSent, delivered>>

GenSendSave(t, outcome) == LoggedSave(t, "genSend", outcome, GenSendResult(task[t]))

\* ----------------------------------- certificateScheduler.generateCertificatesForEvent
AlreadyGeneratedIds ==
  {generatedCertificates[i].participantId :
     i \in {j \in DOMAIN generatedCertificates : generatedCertificates[j].generatedAt}}

ToGenerate == Members \ AlreadyGeneratedIds

GenEvtBegin ==
  IF ~hasTemplate THEN Finished("genEvt", Counts("absent", 0, 0, 0))
  ELSE IF ToGenerate = {} THEN Finished("genEvt", Counts("absent", 0, 0, 0))
  ELSE Loaded("genEvt", ToGenerate, SetToSeq(ToGenerate))

\* mutant: the replacement is the payload alone, sentAt is not carried over
GenEvtRenderPayloadOnly(tk, p, outcome) ==
  LET entryIndex == FindIndex(tk.doc, p)
  IN IF outcome # "ok"
     THEN [tk EXCEPT !.results = Append(@, FALSE),
                     !.rendered = @ \cup {p},
                     !.renderFailed = @ \cup {p}]
     ELSE IF entryIndex = 0
     THEN [tk EXCEPT !.doc = Append(@, Rec(p, TRUE, TRUE, FALSE)),
                     !.results = Append(@, TRUE),
                     !.rendered = @ \cup {p}]
     ELSE [tk EXCEPT !.doc[entryIndex] = Rec(p, TRUE, TRUE, FALSE),
                     !.touched = @ \cup {entryIndex},
                     !.results = Append(@, TRUE),
                     !.rendered = @ \cup {p}]

GenEvtRender(tk, p, outcome) ==
  LET entryIndex == FindIndex(tk.doc, p)
  IN IF outcome # "ok"
     THEN [tk EXCEPT !.results = Append(@, FALSE),
                     !.rendered = @ \cup {p},
                     !.renderFailed = @ \cup {p}]
     ELSE IF entryIndex = 0
     THEN [tk EXCEPT !.doc = Append(@, Rec(p, TRUE, TRUE, FALSE)),
                     !.results = Append(@, TRUE),
                     !.rendered = @ \cup {p}]
     ELSE [tk EXCEPT !.doc[entryIndex] = Rec(p, TRUE, TRUE, @.sentAt),
                     !.touched = @ \cup {entryIndex},
                     !.results = Append(@, TRUE),
                     !.rendered = @ \cup {p}]

GenEvtResult(tk) == Counts("absent", Len(tk.results), CountTrue(tk.results), 0)

GenEvtStart(t) ==
  /\ CanStart(t, "gen")
  /\ eventExists
  /\ FilterLocal(eventDate, now)
  /\ GenEvtBegin.pc = "loop" =>
       Len(generatedCertificates) + Cardinality(ToGenerate) <= MaxRecords
  /\ task' = [task EXCEPT ![t] = GenEvtBegin]
  /\ UNCHANGED <<env, certificateSent, generatedCertificates, delivered>>

\* mutant: the template is saved after every render
GenEvtStepSaving(t, outcome) ==
  /\ task[t].op = "genEvt"
  /\ task[t].pc = "loop"
  /\ task' = [task EXCEPT ![t] = Advance(GenEvtRender(@, Head(@.queue), outcome))]
  /\ generatedCertificates' =
       SaveDoc(Advance(GenEvtRender(task[t], Head(task[t].queue), outcome)))
  /\ UNCHANGED <<env, certificateSent, delivered>>

GenEvtStep(t, outcome) ==
  /\ task[t].op = "genEvt"
  /\ task[t].pc = "loop"
  /\ task' = [task EXCEPT ![t] = Advance(GenEvtRender(@, Head(@.queue), outcome))]
  /\ UNCHANGED <<env, certificateSent, generatedCertificates, delivered>>

GenEvtSave(t, outcome) == LoggedSave(t, "genEvt", outcome, GenEvtResult(task[t]))

\* --------------------------------------- certificateScheduler.sendCertificatesForEvent
\* indexes of the records with generatedAt set and sentAt absent
PendingSends ==
  {i \in DOMAIN generatedCertificates :
     generatedCertificates[i].generatedAt /\ ~generatedCertificates[i].sentAt}

SendEvtBegin ==
  IF ~hasTemplate THEN Finished("sendEvt", Counts("absent", 0, 0, 0))
  ELSE IF PendingSends = {} THEN Finished("sendEvt", Counts("absent", 0, 0, 0))
  ELSE Loaded("sendEvt",
              {generatedCertificates[i].participantId : i \in PendingSends},
              SetToSeq(PendingSends))

SendEvtEmail(tk, i, outcome) ==
  IF EmailSuccess(outcome)
  THEN [tk EXCEPT !.doc[i].sentAt = TRUE,
                  !.touched = @ \cup {i},
                  !.sentCount = @ + 1,
                  !.emailed = @ \cup {tk.doc[i].participantId},
                  !.attempts[tk.doc[i].participantId] = @ + 1,
                  !.emailOk = @ \cup {tk.doc[i].participantId}]
  ELSE [tk EXCEPT !.emailed = @ \cup {tk.doc[i].participantId},
                  !.attempts[tk.doc[i].participantId] = @ + 1]

SendEvtResult(tk) == Counts("absent", tk.total, tk.sentCount, 0)

SendEvtStart(t) ==
  /\ CanStart(t, "send")
  /\ eventExists
  /\ FilterLocal(eventDate, now)
  /\ task' = [task EXCEPT ![t] = SendEvtBegin]
  /\ UNCHANGED <<env, certificateSent, generatedCertificates, delivered>>

SendEvtStep(t, outcome) ==
  /\ task[t].op = "sendEvt"
  /\ task[t].pc = "loop"
  /\ LET i == Head(task[t].queue)
         p == task[t].doc[i].participantId
     IN /\ task' = [task EXCEPT ![t] = Advance(SendEvtEmail(@, i, outcome))]
        /\ delivered' = DeliveredAfter(p, outcome)
        /\ certificateSent' = CertificateSentAfter(p, outcome)
  /\ UNCHANGED <<env, generatedCertificates>>

SendEvtSave(t, outcome) == LoggedSave(t, "sendEvt", outcome, SendEvtResult(task[t]))

\* ------------------------------------------------------- trigger event filters
EvalFilterIST ==
  /\ selected' = [filter |-> "ist", value |-> FilterIST(eventDate, now)]
  /\ UNCHANGED <<now, eventDate, hostOffset, eventExists, hasTemplate, nMembers,
                 certificateSent, generatedCertificates, delivered, task, faulty, overlap,
                 sink, collab, othersToday, job, timer>>

EvalFilterLocal ==
  /\ selected' = [filter |-> "local", value |-> FilterLocal(eventDate, now)]
  /\ UNCHANGED <<now, eventDate, hostOffset, eventExists, hasTemplate, nMembers,
                 certificateSent, generatedCertificates, delivered, task, faulty, overlap,
                 sink, collab, othersToday, job, timer>>

\* ------------------------------------------------------- the recurring trigger
\* Event 1 is the event whose storage is modelled; the other stored events are
\* known by their identity only, and a step invoked on one of them is known by
\* whether it returns or throws.
OtherEvents == 2..NumEvents

NoJob ==
  [variant |-> "current", kind |-> "none", pc |-> "idle", queue |-> <<>>,
   today |-> {}, invoked |-> {}, aborted |-> FALSE,
   firedGen |-> FALSE, firedSend |-> FALSE, failed |-> {},
   at |-> 0, skipped |-> FALSE]

\* the two cron callbacks of startDailyScheduler in certificateScheduler.js, and
\* the two job functions its earlier revision calls
JobKinds(variant) ==
  IF variant = "current" THEN {"generateJob", "sendJob"}
  ELSE {"scheduleCertificateGeneration", "scheduleCertificateSending"}

GenJobKinds == {"generateJob", "scheduleCertificateGeneration"}

\* eventsToday: Event.find() filtered on the date
JobFilter(kind) ==
  IF kind \in {"generateJob", "sendJob"} THEN FilterLocal(eventDate, now)
  ELSE FilterIST(eventDate, now)

EventsToday(kind) ==
  (IF eventExists /\ JobFilter(kind) THEN {1} ELSE {}) \cup othersToday

\* the earlier revision wraps each event's call in try/catch; the cron callbacks
\* of certificateScheduler.js wrap the whole loop
JobCatchesPerEvent(kind) ==
  kind \in {"scheduleCertificateGeneration", "scheduleCertificateSending"}

\* the step the job invokes for event 1
JobBegin(kind) ==
  CASE kind = "generateJob" -> GenEvtBegin
    [] kind = "sendJob" -> SendEvtBegin
    [] kind = "scheduleCertificateGeneration" -> HelperGenBegin
    [] OTHER -> HelperSendBegin

\* generateCertificatesForEvent and sendCertificatesForEvent rethrow what a
\* storage write or the emit throws; the certificateHelper steps catch everything
OtherStepOutcomes(kind) ==
  IF ~JobCatchesPerEvent(kind) /\ (faulty \/ sink = "throws")
  THEN {"returns", "throws"}
  ELSE {"returns"}

\* mutant: the loop does not move on to the next event
JobAfterStuck(j, threw) == [j EXCEPT !.pc = "loop"]

\* the loop after the call for the head of the queue returned or threw
JobAfter(j, threw) ==
  IF threw /\ ~JobCatchesPerEvent(j.kind)
  THEN [j EXCEPT !.pc = "done", !.aborted = TRUE, !.queue = Tail(@)]
  ELSE [j EXCEPT !.pc = IF Len(j.queue) = 1 THEN "done" ELSE "loop", !.queue = Tail(@)]

\* cron fires the job: the generation job first, the send job after it
JobFire(kind) ==
  /\ job.pc = "idle"
  /\ \A t \in Tasks : task[t].pc = "idle"
  /\ kind \in JobKinds(job.variant)
  /\ IF kind \in GenJobKinds THEN ~job.firedGen ELSE job.firedGen /\ ~job.firedSend
  /\ job' = [job EXCEPT !.kind = kind,
                        !.pc = IF EventsToday(kind) = {} THEN "done" ELSE "loop",
                        !.queue = SetToSeq(EventsToday(kind)),
                        !.today = EventsToday(kind),
                        !.invoked = {},
                        !.aborted = FALSE,
                        !.firedGen = TRUE,
                        !.firedSend = kind \notin GenJobKinds]
  /\ UNCHANGED <<now, eventDate, hostOffset, eventExists, hasTemplate, nMembers,
                 certificateSent, generatedCertificates, delivered, task, faulty,
                 overlap, selected, sink, collab, othersToday, timer>>

\* for (const event of eventsToday) await step(event)
JobInvoke(t, outcome) ==
  /\ job.pc = "loop"
  /\ CanStart(t, "none")
  /\ LET e == Head(job.queue)
     IN IF e = 1
        THEN /\ outcome = "returns"
             /\ (JobBegin(job.kind).pc = "loop" /\ JobBegin(job.kind).op \in GenOps) =>
                  Len(generatedCertificates) + Cardinality(JobBegin(job.kind).pending)
                    <= MaxRecords
             /\ task' = [task EXCEPT ![t] = JobBegin(job.kind)]
             /\ job' = [job EXCEPT !.pc = "await", !.invoked = @ \cup {e}]
        ELSE /\ outcome \in OtherStepOutcomes(job.kind)
             /\ job' = [JobAfter(job, outcome = "throws") EXCEPT !.invoked = @ \cup {e}]
             /\ UNCHANGED task
  /\ UNCHANGED <<now, eventDate, hostOffset, eventExists, hasTemplate, nMembers,
                 certificateSent, generatedCertificates, delivered, faulty,
                 overlap, selected, sink, collab, othersToday, timer>>

\* participants the invocation failed to render or to email
Failures(tk) == tk.renderFailed \cup (tk.emailed \ tk.emailOk)

\* the awaited step settles
JobAwait(t) ==
  /\ job.pc = "await"
  /\ task[t].pc = "done"
  /\ job' = [JobAfter(job, task[t].result.kind = "threw") EXCEPT
               !.failed = {p \in @ \cup Failures(task[t]) : ~certificateSent[p]}]
  /\ task' = [task EXCEPT ![t] = Idle]
  /\ UNCHANGED <<now, eventDate, hostOffset, eventExists, hasTemplate, nMembers,
                 certificateSent, generatedCertificates, delivered, faulty,
                 overlap, selected, sink, collab, othersToday, timer>>

\* the cron callback returns
JobEnd ==
  /\ job.pc = "done"
  /\ job' = [job EXCEPT !.pc = "idle"]
  /\ UNCHANGED <<now, eventDate, hostOffset, eventExists, hasTemplate, nMembers,
                 certificateSent, generatedCertificates, delivered, task, faulty,
                 overlap, selected, sink, collab, othersToday, timer>>

\* the next day begins; days after the last one modelled are all alike
DayPasses ==
  /\ job.pc = "idle"
  /\ job.firedGen /\ job.firedSend
  /\ now' = Min(now + HalfHoursPerDay, MaxDays * HalfHoursPerDay + HalfHoursPerDay \div 2 - ISTOffset)
  /\ job' = [job EXCEPT !.firedGen = FALSE, !.firedSend = FALSE]
  /\ othersToday' \in SUBSET OtherEvents
  /\ UNCHANGED <<eventDate, hostOffset, eventExists, hasTemplate, nMembers,
                 certificateSent, generatedCertificates, delivered, task, faulty,
                 overlap, selected, sink, collab, timer>>

\* the renderer and the mail transport work from now on
Recover ==
  /\ collab = "flaky"
  /\ collab' = "working"
  /\ UNCHANGED <<now, eventDate, hostOffset, eventExists, hasTemplate, nMembers,
                 certificateSent, generatedCertificates, delivered, task, faulty,
                 overlap, selected, sink, othersToday, job, timer>>

\* ---------------------------------------- the job bodies with a time-of-day check
\* The revisions part_001 and part_002 of scheduleCertificateGeneration and
\* scheduleCertificateSending compare the clock with a time of the host's day
\* before they look for events.  Times of day are counted in minutes here.
GatedRevisions == {"part_001", "part_002"}

\* the time the cron expression and the log messages of the revision name
BodyCutoff(variant, kind) ==
  CASE variant = "part_001" /\ kind = "scheduleCertificateGeneration" -> 9 * 60 + 40
    [] variant = "part_001" -> 9 * 60 + 45
    [] variant = "part_002" /\ kind = "scheduleCertificateGeneration" -> 9 * 60 + 55
    [] OTHER -> 10 * 60

\* a job body without the check
BodyNeverReturnsEarly(variant, kind, m) == FALSE

\* part_001: timeDiff < -twoMinutes returns early;
\* part_002: now < certificateTime, set one minute before the cutoff, returns early
BodyReturnsEarly(variant, kind, m) ==
  CASE variant = "part_001" -> m - BodyCutoff(variant, kind) < -2
    [] variant = "part_002" /\ kind = "scheduleCertificateGeneration" -> m < 9 * 60 + 54
    [] OTHER -> m < 9 * 60 + 59

\* the minutes of the half hour the clock is in, as times of the host's day
MinutesNow ==
  {((now + hostOffset) % HalfHoursPerDay) * 30 + k : k \in 0..29}

\* eventsToday of these revisions: getFullYear/getMonth/getDate of the host
BodyEventsToday ==
  (IF eventExists /\ FilterLocal(eventDate, now) THEN {1} ELSE {}) \cup othersToday

\* scheduleCertificateGeneration() or scheduleCertificateSending() is called
JobBodyCall(variant, kind, m) ==
  /\ job.pc = "idle" /\ job.kind = "none"
  /\ \A t \in Tasks : task[t].pc = "idle"
  /\ variant \in GatedRevisions
  /\ kind \in JobKinds(variant)
  /\ m \in MinutesNow
  /\ job' =
       IF BodyReturnsEarly(variant, kind, m) \/ BodyEventsToday = {}
       THEN [job EXCEPT !.variant = variant, !.kind = kind, !.at = m, !.pc = "done",
                        !.skipped = BodyReturnsEarly(variant, kind, m)]
       ELSE [job EXCEPT !.variant = variant, !.kind = kind, !.at = m, !.pc = "loop",
                        !.queue = SetToSeq(BodyEventsToday),
                        !.today = BodyEventsToday]
  /\ UNCHANGED <<now, eventDate, hostOffset, eventExists, hasTemplate, nMembers,
                 certificateSent, generatedCertificates, delivered, task, faulty,
                 overlap, selected, sink, collab, othersToday, timer>>

\* ------------------------------------------------------- the per-event trigger
NoTimer ==
  [variant |-> "current", called |-> FALSE, handle |-> "null", cancelled |-> FALSE,
   gen |-> "none", genDelay |-> 0, genDue |-> 0,
   send |-> "none", sendDelay |-> 0, sendDue |-> 0]

Max(a, b) == IF a > b THEN a ELSE b

\* scheduleDate = new Date(eventDate); scheduleDate.setHours(h, m, 0, 0)
ScheduleDate(variant) ==
  LocalDateOnly(eventDate) + (IF variant = "current" THEN GenSlotCurrent ELSE GenSlotEarlier)

\* sendScheduleDate of the earlier revision
SendScheduleDate == LocalDateOnly(eventDate) + SendSlotEarlier

\* scheduleEventCertificateGeneration(event); the clock is read for the check
\* and read again for the delay, and has advanced by elapsed in between
ScheduleEvent(elapsed) ==
  /\ ~timer.called
  /\ eventExists
  /\ \A t \in Tasks : task[t].pc = "idle"
  /\ now' = now + elapsed
  /\ timer' =
       IF ScheduleDate(timer.variant) < now
       THEN [timer EXCEPT !.called = TRUE]
       ELSE [timer EXCEPT !.called = TRUE,
                          !.handle = "timeout",
                          !.gen = "armed",
                          !.genDelay = ScheduleDate(timer.variant) - (now + elapsed),
                          !.genDue = Max(ScheduleDate(timer.variant), now + elapsed)]
  /\ UNCHANGED <<eventDate, hostOffset, eventExists, hasTemplate, nMembers,
                 certificateSent, generatedCertificates, delivered, task, faulty,
                 overlap, selected, sink, collab, othersToday, job>>

\* the step the generation timer's callback calls
TimerGenBegin(variant) == IF variant = "current" THEN GenSendBegin ELSE HelperGenBegin

\* the generation timer fires
GenTimerFire(t) ==
  /\ timer.gen = "armed"
  /\ now >= timer.genDue
  /\ CanStart(t, "none")
  /\ task' = [task EXCEPT ![t] = TimerGenBegin(timer.variant)]
  /\ timer' = [timer EXCEPT !.gen = "running"]
  /\ UNCHANGED <<now, eventDate, hostOffset, eventExists, hasTemplate, nMembers,
                 certificateSent, generatedCertificates, delivered, faulty,
                 overlap, selected, sink, collab, othersToday, job>>

\* the awaited step settles (what it throws is caught and logged); the earlier
\* revision then arms the send timer when sendDelay > 0
GenTimerDone(t) ==
  /\ timer.gen = "running"
  /\ task[t].pc = "done"
  /\ task' = [task EXCEPT ![t] = Idle]
  /\ timer' =
       IF timer.variant = "earlier" /\ SendScheduleDate - now > 0
       THEN [timer EXCEPT !.gen = "fired",
                          !.send = "armed",
                          !.sendDelay = SendScheduleDate - now,
                          !.sendDue = SendScheduleDate]
       ELSE [timer EXCEPT !.gen = "fired"]
  /\ UNCHANGED <<now, eventDate, hostOffset, eventExists, hasTemplate, nMembers,
                 certificateSent, generatedCertificates, delivered, faulty,
                 overlap, selected, sink, collab, othersToday, job>>

\* the chained send timer fires
SendTimerFire(t) ==
  /\ timer.send = "armed"
  /\ now >= timer.sendDue
  /\ CanStart(t, "none")
  /\ task' = [task EXCEPT ![t] = HelperSendBegin]
  /\ timer' = [timer EXCEPT !.send = "running"]
  /\ UNCHANGED <<now, eventDate, hostOffset, eventExists, hasTemplate, nMembers,
                 certificateSent, generatedCertificates, delivered, faulty,
                 overlap, selected, sink, collab, othersToday, job>>

SendTimerDone(t) ==
  /\ timer.send = "running"
  /\ task[t].pc = "done"
  /\ task' = [task EXCEPT ![t] = Idle]
  /\ timer' = [timer EXCEPT !.send = "fired"]
  /\ UNCHANGED <<now, eventDate, hostOffset, eventExists, hasTemplate, nMembers,
                 certificateSent, generatedCertificates, delivered, faulty,
                 overlap, selected, sink, collab, othersToday, job>>

\* the caller cancels the handle it was given: clearTimeout(timeoutId)
CancelTimer ==
  /\ timer.handle = "timeout"
  /\ ~timer.cancelled
  /\ timer' = [timer EXCEPT !.cancelled = TRUE,
                            !.gen = IF @ = "armed" THEN "cancelled" ELSE @]
  /\ UNCHANGED <<now, eventDate, hostOffset, eventExists, hasTemplate, nMembers,
                 certificateSent, generatedCertificates, delivered, task, faulty,
                 overlap, selected, sink, collab, othersToday, job>>

\* the event is deleted; its template goes with it or stays
DeleteEvent ==
  /\ timer.called
  /\ eventExists
  /\ \A t \in Tasks : task[t].pc = "idle"
  /\ eventExists' = FALSE
  /\ hasTemplate' \in {hasTemplate, FALSE}
  /\ UNCHANGED <<now, eventDate, hostOffset, nMembers,
                 certificateSent, generatedCertificates, delivered, task, faulty,
                 overlap, selected, sink, collab, othersToday, job, timer>>

\* half an hour passes; a timer that is due fires before the clock moves on
Tick ==
  /\ timer.called
  /\ \A t \in Tasks : task[t].pc = "idle"
  /\ timer.gen = "armed" => now < timer.genDue
  /\ timer.send = "armed" => now < timer.sendDue
  /\ now < MaxDays * HalfHoursPerDay - 1
  /\ now' = now + 1
  /\ UNCHANGED <<eventDate, hostOffset, eventExists, hasTemplate, nMembers,
                 certificateSent, generatedCertificates, delivered, task, faulty,
                 overlap, selected, sink, collab, othersToday, job, timer>>

\* half an hour passes while the step awaited by the generation fire runs
TickRunning ==
  /\ timer.gen = "running"
  /\ now <= SendScheduleDate
  /\ now' = now + 1
  /\ UNCHANGED <<eventDate, hostOffset, eventExists, hasTemplate, nMembers,
                 certificateSent, generatedCertificates, delivered, task, faulty,
                 overlap, selected, sink, collab, othersToday, job, timer>>

\* ---------------------------------------------------------- specifications
\* noon (IST) of civil day d
NoonIST(d) == d * HalfHoursPerDay - ISTOffset + HalfHoursPerDay \div 2

Instants == 0..(MaxDays * HalfHoursPerDay - 1)

HostOffsets == {0, ISTOffset}

InitStorage ==
  /\ certificateSent = [p \in Participants |-> FALSE]
  /\ generatedCertificates = <<>>
  /\ delivered = [p \in Participants |-> 0]
  /\ task = [t \in Tasks |-> Idle]
  /\ selected = [filter |-> "none", value |-> FALSE]
  /\ collab = "flaky"

\* no recurring trigger is running
InitNoJob == othersToday = {} /\ job = NoJob /\ timer = NoTimer

Sinks == {"none", "ok", "throws"}

InitEvent ==
  /\ now = NoonIST(1)
  /\ eventDate \in {NoonIST(0), NoonIST(1), NoonIST(2)}
  /\ hostOffset = ISTOffset
  /\ eventExists \in BOOLEAN
  /\ hasTemplate \in BOOLEAN
  /\ nMembers \in 0..NumParticipants

Init ==
  /\ InitEvent /\ InitStorage /\ InitNoJob
  /\ faulty = FALSE /\ overlap = "none" /\ sink \in Sinks

InitFaulty ==
  /\ InitEvent /\ InitStorage /\ InitNoJob
  /\ faulty = TRUE /\ overlap = "none" /\ sink = "none"

InitOverlap ==
  /\ InitEvent /\ InitStorage /\ InitNoJob
  /\ faulty = FALSE /\ overlap = "send" /\ sink = "none"

\* the daily scheduler runs from the day before the event's day or from that day
InitDaily ==
  /\ now = NoonIST(0)
  /\ eventDate \in {NoonIST(0), NoonIST(1)}
  /\ hostOffset = ISTOffset
  /\ eventExists = TRUE
  /\ hasTemplate \in BOOLEAN
  /\ nMembers \in 1..NumParticipants
  /\ InitStorage
  /\ faulty \in BOOLEAN
  /\ overlap = "none"
  /\ sink \in {"none", "throws"}
  /\ othersToday \in SUBSET OtherEvents
  /\ job \in {[NoJob EXCEPT !.variant = v] : v \in {"current", "earlier"}}
  /\ timer = NoTimer

InitTime ==
  /\ now \in Instants
  /\ eventDate \in Instants
  /\ hostOffset \in HostOffsets
  /\ eventExists = TRUE
  /\ hasTemplate = TRUE
  /\ nMembers = 0
  /\ InitStorage
  /\ faulty = FALSE
  /\ overlap = "none"
  /\ sink = "none"
  /\ InitNoJob

Next ==
  \E t \in Tasks :
    \/ HelperGenStart(t)
    \/ \E o \in RenderOutcomes : HelperGenStep(t, o)
    \/ \E o \in SaveOutcomes : HelperGenSave(t, o)
    \/ HelperSendStart(t)
    \/ \E o \in EmailOutcomes : HelperSendStep(t, o)
    \/ \E o \in SaveOutcomes : HelperSendSave(t, o)
    \/ GenSendStart(t)
    \/ \E o \in GenSendOutcomes : GenSendStep(t, o)
    \/ \E o \in LoggedSaveOutcomes : GenSendSave(t, o)
    \/ GenEvtStart(t)
    \/ \E o \in RenderOutcomes : GenEvtStep(t, o)
    \/ \E o \in LoggedSaveOutcomes : GenEvtSave(t, o)
    \/ SendEvtStart(t)
    \/ \E o \in EmailOutcomes : SendEvtStep(t, o)
    \/ \E o \in LoggedSaveOutcomes : SendEvtSave(t, o)
    \/ Return(t)

\* the recurring sending job and the chained per-event timer (or a manual re-run)
\* both call certificateHelper.sendGeneratedCertificates
NextOverlap ==
  \E t \in Tasks :
    \/ HelperGenStart(t)
    \/ \E o \in RenderOutcomes : HelperGenStep(t, o)
    \/ \E o \in SaveOutcomes : HelperGenSave(t, o)
    \/ HelperSendStart(t)
    \/ \E o \in EmailOutcomes : HelperSendStep(t, o)
    \/ \E o \in SaveOutcomes : HelperSendSave(t, o)
    \/ Return(t)

NextTime == EvalFilterIST \/ EvalFilterLocal

\* the steps run when the recurring trigger invokes them
NextDaily ==
  \/ \E k \in JobKinds(job.variant) : JobFire(k)
  \/ \E t \in Tasks, o \in {"returns", "throws"} : JobInvoke(t, o)
  \/ \E t \in Tasks : JobAwait(t)
  \/ JobEnd
  \/ DayPasses
  \/ Recover
  \/ \E t \in Tasks :
       \/ \E o \in RenderOutcomes : HelperGenStep(t, o)
       \/ \E o \in SaveOutcomes : HelperGenSave(t, o)
       \/ \E o \in EmailOutcomes : HelperSendStep(t, o)
       \/ \E o \in SaveOutcomes : HelperSendSave(t, o)
       \/ \E o \in RenderOutcomes : GenEvtStep(t, o)
       \/ \E o \in LoggedSaveOutcomes : GenEvtSave(t, o)
       \/ \E o \in EmailOutcomes : SendEvtStep(t, o)
       \/ \E o \in LoggedSaveOutcomes : SendEvtSave(t, o)

\* cron fires every day, every callback and every awaited call runs on
DailyFairness ==
  /\ WF_vars(\E k \in JobKinds(job.variant) : JobFire(k))
  /\ WF_vars(\E t \in Tasks, o \in {"returns", "throws"} : JobInvoke(t, o))
  /\ WF_vars(\E t \in Tasks : JobAwait(t))
  /\ WF_vars(JobEnd)
  /\ WF_vars(DayPasses)
  /\ WF_vars(\E t \in Tasks :
               \/ \E o \in RenderOutcomes : HelperGenStep(t, o)
               \/ \E o \in SaveOutcomes : HelperGenSave(t, o)
               \/ \E o \in EmailOutcomes : HelperSendStep(t, o)
               \/ \E o \in SaveOutcomes : HelperSendSave(t, o)
               \/ \E o \in RenderOutcomes : GenEvtStep(t, o)
               \/ \E o \in LoggedSaveOutcomes : GenEvtSave(t, o)
               \/ \E o \in EmailOutcomes : SendEvtStep(t, o)
               \/ \E o \in LoggedSaveOutcomes : SendEvtSave(t, o))

Spec == Init /\ [][Next]_vars

SpecFaulty == InitFaulty /\ [][Next]_vars

SpecOverlap == InitOverlap /\ [][NextOverlap]_vars

SpecTime == InitTime /\ [][NextTime]_vars

\* the per-event trigger is created some time around the event's day
InitTimer ==
  /\ eventDate = NoonIST(1)
  /\ now \in {i \in Instants : i >= eventDate - HalfHoursPerDay \div 4}
  /\ hostOffset = ISTOffset
  /\ eventExists = TRUE
  /\ hasTemplate \in BOOLEAN
  /\ nMembers \in 1..NumParticipants
  /\ InitStorage
  /\ faulty = FALSE
  /\ overlap = "none"
  /\ sink = "none"
  /\ othersToday = {}
  /\ job = NoJob
  /\ timer \in {[NoTimer EXCEPT !.variant = v] : v \in {"current", "earlier"}}

NextTimer ==
  \/ \E elapsed \in {0, 1} : ScheduleEvent(elapsed)
  \/ CancelTimer
  \/ DeleteEvent
  \/ Tick
  \/ \E t \in Tasks :
       \/ GenTimerFire(t)
       \/ GenTimerDone(t)
       \/ SendTimerFire(t)
       \/ SendTimerDone(t)
       \/ \E o \in GenSendOutcomes : GenSendStep(t, o)
       \/ \E o \in LoggedSaveOutcomes : GenSendSave(t, o)
       \/ \E o \in RenderOutcomes : HelperGenStep(t, o)
       \/ \E o \in SaveOutcomes : HelperGenSave(t, o)
       \/ \E o \in EmailOutcomes : HelperSendStep(t, o)
       \/ \E o \in SaveOutcomes : HelperSendSave(t, o)

\* the certificateHelper steps called directly, at any time of the day
InitHelper ==
  /\ now \in {NoonIST(1) - HalfHoursPerDay \div 4, NoonIST(1)}
  /\ eventDate \in {NoonIST(0), NoonIST(1), NoonIST(2)}
  /\ hostOffset = ISTOffset
  /\ eventExists \in BOOLEAN
  /\ hasTemplate \in BOOLEAN
  /\ nMembers \in 0..NumParticipants
  /\ InitStorage /\ InitNoJob
  /\ faulty = FALSE /\ overlap = "none" /\ sink = "none"

NextHelper ==
  \E t \in Tasks :
    \/ \E ids \in SUBSET Participants : HelperGenStartFor(t, ids)
    \/ \E o \in RenderOutcomes : HelperGenStep(t, o)
    \/ \E o \in SaveOutcomes : HelperGenSave(t, o)
    \/ HelperSendStart(t)
    \/ \E o \in EmailOutcomes : HelperSendStep(t, o)
    \/ \E o \in SaveOutcomes : HelperSendSave(t, o)
    \/ Return(t)

SpecHelper == InitHelper /\ [][NextHelper]_vars

\* the gated job bodies called around their times of day
InitCutoff ==
  /\ now \in {NoonIST(1) - 6, NoonIST(1) - 5, NoonIST(1) - 4}
  /\ eventDate \in {NoonIST(1), NoonIST(2)}
  /\ hostOffset = ISTOffset
  /\ eventExists = TRUE /\ hasTemplate = TRUE
  /\ nMembers \in 0..NumParticipants
  /\ InitStorage
  /\ othersToday \in SUBSET OtherEvents
  /\ job = NoJob /\ timer = NoTimer
  /\ faulty = FALSE /\ overlap = "none" /\ sink = "none"

NextCutoff ==
  \/ \E v \in GatedRevisions : \E k \in JobKinds(v) : \E m \in MinutesNow :
       JobBodyCall(v, k, m)
  \/ \E t \in Tasks, o \in {"returns"} : JobInvoke(t, o)
  \/ \E t \in Tasks :
       \/ \E o \in RenderOutcomes : HelperGenStep(t, o)
       \/ \E o \in SaveOutcomes : HelperGenSave(t, o)
       \/ \E o \in EmailOutcomes : HelperSendStep(t, o)
       \/ \E o \in SaveOutcomes : HelperSendSave(t, o)
       \/ JobAwait(t)
  \/ JobEnd

SpecCutoff == InitCutoff /\ [][NextCutoff]_vars

\* Dispatch Steps after a generation that rendered every participant, the
\* process stopping and restarting at any point of a loop
InitStop ==
  /\ now = NoonIST(1)
  /\ eventDate = NoonIST(1)
  /\ hostOffset = ISTOffset
  /\ eventExists = TRUE /\ hasTemplate = TRUE
  /\ nMembers \in 0..NumParticipants
  /\ certificateSent = [p \in Participants |-> FALSE]
  /\ generatedCertificates = [i \in 1..nMembers |-> Rec(i, TRUE, TRUE, FALSE)]
  /\ delivered = [p \in Participants |-> 0]
  /\ task = [t \in Tasks |-> Idle]
  /\ selected = [filter |-> "none", value |-> FALSE]
  /\ collab \in {"flaky", "working"}
  /\ InitNoJob
  /\ faulty = FALSE /\ overlap = "none" /\ sink = "none"

NextStop ==
  \E t \in Tasks :
    \/ HelperSendStart(t)
    \/ \E o \in EmailOutcomes : HelperSendStep(t, o)
    \/ \E o \in SaveOutcomes : HelperSendSave(t, o)
    \/ SendEvtStart(t)
    \/ \E o \in EmailOutcomes : SendEvtStep(t, o)
    \/ \E o \in LoggedSaveOutcomes : SendEvtSave(t, o)
    \/ Stop(t)
    \/ Return(t)

SpecStop == InitStop /\ [][NextStop]_vars

\* the chain of the earlier revision: the generation timer, the step it awaits
\* taking any time, and the send timer armed after it
InitChain ==
  /\ eventDate = NoonIST(1)
  /\ now \in {NoonIST(1) - 5, NoonIST(1) - 4}
  /\ hostOffset = ISTOffset
  /\ eventExists = TRUE
  /\ hasTemplate \in BOOLEAN
  /\ nMembers \in 0..NumParticipants
  /\ InitStorage
  /\ faulty = FALSE /\ overlap = "none" /\ sink = "none"
  /\ othersToday = {}
  /\ job = NoJob
  /\ timer = [NoTimer EXCEPT !.variant = "earlier"]

NextChain ==
  \/ \E elapsed \in {0, 1} : ScheduleEvent(elapsed)
  \/ CancelTimer
  \/ Tick
  \/ TickRunning
  \/ \E t \in Tasks :
       \/ GenTimerFire(t)
       \/ GenTimerDone(t)
       \/ SendTimerFire(t)
       \/ SendTimerDone(t)
       \/ \E o \in RenderOutcomes : HelperGenStep(t, o)
       \/ \E o \in SaveOutcomes : HelperGenSave(t, o)
       \/ \E o \in EmailOutcomes : HelperSendStep(t, o)
       \/ \E o \in SaveOutcomes : HelperSendSave(t, o)

\* a timer that is due fires, and an awaited call settles
ChainFairness == WF_vars(NextChain)

SpecChain == InitChain /\ [][NextChain]_vars /\ ChainFairness

\* the recurring generation job and the per-event timer both call
\* certificateHelper.generateCertificatesForNewParticipants for the event
InitOverlapGen ==
  /\ InitEvent /\ InitStorage /\ InitNoJob
  /\ faulty = FALSE /\ overlap = "gen" /\ sink = "none"

SpecOverlapGen == InitOverlapGen /\ [][NextOverlap]_vars

\* one day of the earlier revision's recurring jobs: the generation job fires,
\* then the send job, each awaiting a certificateHelper step per event of today
InitFiring ==
  /\ now = NoonIST(1)
  /\ eventDate \in {NoonIST(1), NoonIST(2)}
  /\ hostOffset = ISTOffset
  /\ eventExists \in BOOLEAN
  /\ hasTemplate \in BOOLEAN
  /\ nMembers \in 0..NumParticipants
  /\ InitStorage
  /\ faulty \in BOOLEAN
  /\ overlap = "none" /\ sink = "none"
  /\ othersToday \in SUBSET OtherEvents
  /\ job = [NoJob EXCEPT !.variant = "earlier"]
  /\ timer = NoTimer

FiringSteps ==
  \E t \in Tasks :
    \/ \E o \in RenderOutcomes : HelperGenStep(t, o)
    \/ \E o \in SaveOutcomes : HelperGenSave(t, o)
    \/ \E o \in EmailOutcomes : HelperSendStep(t, o)
    \/ \E o \in SaveOutcomes : HelperSendSave(t, o)

NextFiring ==
  \/ \E k \in JobKinds(job.variant) : JobFire(k)
  \/ \E t \in Tasks : JobInvoke(t, "returns")
  \/ \E t \in Tasks : JobAwait(t)
  \/ JobEnd
  \/ FiringSteps

\* every render, email and storage call returns or throws, and the event loop
\* runs the continuation
FiringFairness ==
  /\ WF_vars(\E t \in Tasks : JobInvoke(t, "returns"))
  /\ WF_vars(\E t \in Tasks : JobAwait(t))
  /\ WF_vars(FiringSteps)

SpecFiring == InitFiring /\ [][NextFiring]_vars /\ FiringFairness

SpecTimer == InitTimer /\ [][NextTimer]_vars

SpecDaily == InitDaily /\ [][NextDaily]_vars /\ DailyFairness

\* ------------------------------------------------------------------ claims
\* number of records of participant p in a generatedCertificates array
CountRecs(recs, p) == Cardinality({i \in DOMAIN recs : recs[i].participantId = p})

\* participants whose per-participant result of the invocation has success = true
Succeeded(tk) ==
  {SetToSeq(tk.pending)[i] : i \in {j \in DOMAIN tk.results : tk.results[j]}}

\* the invocation began in a state that only generation has produced so far
NothingSentAtStart(tk) ==
  /\ tk.startSent = {}
  /\ \A i \in DOMAIN tk.startRecs : ~tk.startRecs[i].sentAt

\* C1: a Generation Step invoked again with no dispatch in between gives no
\* participant a second record, and does not count as successful a participant
\* that already had a record.
C1_GenerationIdempotent ==
  \A t \in Tasks :
    (/\ task[t].op \in {"helperGen", "genEvt"}
     /\ task[t].pc = "done"
     /\ FilterIST(eventDate, now)
     /\ hasTemplate
     /\ NothingSentAtStart(task[t]))
    => \A p \in Participants :
         CountRecs(task[t].startRecs, p) > 0 =>
           /\ CountRecs(generatedCertificates, p) = CountRecs(task[t].startRecs, p)
           /\ p \notin Succeeded(task[t])

\* C2: the template holds at most one GenerationRecord per participant.
C2_AtMostOneRecordPerParticipant ==
  \A p \in Participants : CountRecs(generatedCertificates, p) <= 1

\* C3: no Dispatch Step invocation attempts an email for a participant whose
\* persisted certificateSent was already true when the invocation computed its
\* pending set.
C3_DispatchSkipsSentParticipants ==
  \A t \in Tasks :
    task[t].op \in SendOps => task[t].emailed \cap task[t].startSent = {}

\* C4: each participant has a certificate email delivered at most once, whatever
\* the render, transport and storage-write outcomes of sequential invocations.
C4_NoDuplicateSends == \A p \in Participants : delivered[p] <= 1

\* C5: while two Dispatch Step invocations for the event interleave at their
\* await points, no participant is emailed a certificate more than once.
C5_OverlapNoDoubleSend ==
  (\A t \in Tasks : task[t].op = "helperSend")
  => \A p \in Participants : delivered[p] <= 1

\* C6: a participant with a record that has generatedAt set and sentAt absent and
\* with certificateSent false is emailed by the Dispatch Step, and when the email
\* succeeds that record's sentAt and the participant's certificateSent are set
\* when the invocation returns.
C6_CrashRecoveryResumption ==
  \A t \in Tasks :
    (task[t].op \in SendOps /\ task[t].pc = "done" /\ eventExists)
    => \A i \in DOMAIN task[t].startRecs :
         LET r == task[t].startRecs[i]
             p == r.participantId
         IN (r.generatedAt /\ ~r.sentAt /\ p \notin task[t].startSent)
            => /\ p \in task[t].emailed
               /\ p \in task[t].emailOk =>
                    generatedCertificates[i].sentAt /\ certificateSent[p]

\* the n records a fully successful first generation leaves: one per participant
\* of the event, each with generatedAt set and sentAt absent
FreshRecords == [i \in 1..nMembers |-> Rec(i, TRUE, TRUE, FALSE)]

\* the invocation went past its not-found, date and nothing-pending returns
HelperGenEntered(tk) ==
  /\ tk.op = "helperGen"
  /\ eventExists
  /\ hasTemplate
  /\ getISTDate(eventDate) <= getISTDate(now)
  /\ tk.pending # {}

\* C7: a Generation Step with n pending participants of which the subset F fails
\* to render has attempted every one of them when it returns, reports total = n,
\* successful = n - |F|, failed = |F|, has added one record for each participant
\* outside F and none for those in F, and every participant in F is still
\* selected as pending by the next invocation.
C7_GenerationFailureIsolation ==
  \A t \in Tasks :
    (HelperGenEntered(task[t]) /\ task[t].pc = "done")
    => LET tk == task[t]
           n == Cardinality(tk.pending)
           F == tk.renderFailed
       IN /\ tk.rendered = tk.pending
          /\ tk.result.kind = "counts"
          /\ tk.result.total = n
          /\ tk.result.successful = n - Cardinality(F)
          /\ tk.result.failed = Cardinality(F)
          /\ \A p \in tk.pending :
               CountRecs(generatedCertificates, p) =
                 CountRecs(tk.startRecs, p) + (IF p \in F THEN 0 ELSE 1)
          /\ Len(generatedCertificates) = Len(tk.startRecs) + n - Cardinality(F)
          /\ \A p \in F : p \in NotSent

\* a Generation Step returned after some renders failed and some succeeded
C7_Witness ==
  \E t \in Tasks :
    /\ HelperGenEntered(task[t])
    /\ task[t].pc = "done"
    /\ task[t].renderFailed # {}
    /\ task[t].renderFailed # task[t].pending
    /\ task[t].result.failed = 1

\* C8: a Generation or Dispatch Step invoked on an existing event without a
\* template returns success = false with the template-not-found message, and has
\* written nothing, rendered nothing and emailed nobody.
C8_NoTemplateNotFound ==
  \A t \in Tasks :
    (/\ task[t].op \in {"helperGen", "helperSend", "genEvt"}
     /\ task[t].pc = "done"
     /\ eventExists
     /\ ~hasTemplate)
    => /\ task[t].result.kind = "templateNotFound"
       /\ task[t].result.success = "false"
       /\ task[t].rendered = {}
       /\ task[t].emailed = {}
       /\ generatedCertificates = task[t].startRecs
       /\ {p \in Participants : certificateSent[p]} = task[t].startSent

\* C9: for an event dated today with a template and n participants without
\* records, a Generation Step whose renders all succeed returns
\* {total: n, successful: n, failed: 0} and leaves exactly n records with sentAt
\* absent; a Dispatch Step that follows and whose emails all succeed returns
\* {total: n, successful: n} and leaves every participant with certificateSent.
C9_HappyPath ==
  \A t \in Tasks :
    LET tk == task[t]
    IN (/\ tk.pc = "done"
        /\ eventExists
        /\ hasTemplate
        /\ FilterIST(eventDate, now)
        /\ nMembers >= 1
        /\ tk.startSent = {})
       => /\ (/\ tk.op = "helperGen"
              /\ tk.startRecs = <<>>
              /\ tk.renderFailed = {})
             => /\ tk.result = Counts("true", nMembers, nMembers, 0)
                /\ generatedCertificates = FreshRecords
          /\ (/\ tk.op = "helperSend"
              /\ tk.startRecs = FreshRecords
              /\ tk.emailed = tk.emailOk)
             => /\ tk.result.kind = "counts"
                /\ tk.result.total = nMembers
                /\ tk.result.successful = nMembers
                /\ \A p \in Members : certificateSent[p]
                /\ \A i \in DOMAIN generatedCertificates : generatedCertificates[i].sentAt

\* the Dispatch Step returned after emailing every participant of a freshly
\* generated event with several participants
C9_Witness ==
  \E t \in Tasks :
    /\ task[t].op = "helperSend"
    /\ task[t].pc = "done"
    /\ eventExists
    /\ FilterIST(eventDate, now)
    /\ nMembers = NumParticipants
    /\ task[t].startSent = {}
    /\ task[t].startRecs = FreshRecords
    /\ task[t].emailOk = Members
    /\ task[t].result.successful = nMembers

\* civil date (day number) of an instant in Asia/Kolkata, UTC+5:30 all year
CivilDayIST(t) == (t + ISTOffset) \div HalfHoursPerDay

\* C10: the recurring trigger's event filter selects an event iff the civil date
\* of its stored date in Asia/Kolkata equals the civil date of the current instant
\* in Asia/Kolkata, whatever the two times of day.
C10_TimeGating ==
  selected.filter # "none" =>
    (selected.value <=> (CivilDayIST(eventDate) = CivilDayIST(now)))

\* the generation-only steps
GenOnlyOps == {"helperGen", "genEvt"}

FailedSends(tk) == (tk.emailed \ tk.emailOk) \ tk.startSent

\* the participant is in the pending set a Dispatch Step would compute now
PendingForNextDispatch(op, p) ==
  IF op = "helperSend" THEN p \in NotSent
  ELSE \E i \in PendingSends : generatedCertificates[i].participantId = p

\* C12: within one Dispatch Step invocation every participant gets at most one
\* email attempt, every pending participant is attempted, and when the invocation
\* returns a participant whose attempt failed has certificateSent false, no
\* record with sentAt set, is counted among the failed, and is pending for the
\* next Dispatch Step.
C12_DispatchFailureHandling ==
  \A t \in Tasks :
    LET tk == task[t]
    IN (tk.op \in SendOps)
       => /\ \A p \in Participants : tk.attempts[p] <= 1
          /\ (tk.pc = "done" /\ tk.result.kind = "counts" /\ tk.total > 0)
             => /\ \A p \in tk.pending :
                     (\E i \in DOMAIN tk.startRecs :
                        /\ tk.startRecs[i].participantId = p
                        /\ tk.startRecs[i].certificatePath) => p \in tk.emailed
                /\ tk.result.total - tk.result.successful >= Cardinality(FailedSends(tk))
                /\ \A p \in FailedSends(tk) :
                     /\ ~certificateSent[p]
                     /\ \A i \in DOMAIN generatedCertificates :
                          generatedCertificates[i].participantId = p
                          => ~generatedCertificates[i].sentAt
                     /\ PendingForNextDispatch(tk.op, p)

\* C13: a participant of the event whose render or email failed in a firing of
\* the daily recurring trigger reaches certificateSent = true once the renderer
\* and the mail transport work again, through later firings of the trigger alone.
C13_RecoveryByDailyTrigger ==
  \A p \in Participants :
    (p \in job.failed /\ collab = "working" /\ hasTemplate /\ ~faulty /\ sink = "none")
    ~> certificateSent[p]

\* C14: when a firing of the daily generation job or of the daily send job is
\* over, the step has been invoked for every event that qualified today, also
\* when the step threw for one of them.
C14_PerEventIsolation ==
  job.pc = "done" => job.invoked = job.today

\* C15: every invocation of a Generation or Dispatch Step that is over has
\* returned a result carrying a success field and has not thrown to its caller,
\* also when a storage write failed on the way.
C15_StructuredResult ==
  \A t \in Tasks :
    (task[t].pc = "done" /\ task[t].op \in GenOnlyOps \cup SendOps)
    => /\ task[t].result.kind # "threw"
       /\ task[t].result.success \in {"true", "false"}

\* C16: a step of certificateScheduler.js whose storage writes all succeeded
\* returns the same result whether the sink is absent, works or throws on emit,
\* and does not throw.
C16_SinkIsolation ==
  \A t \in Tasks :
    (task[t].pc = "done" /\ task[t].total > 0)
    => /\ task[t].op = "genSend" => task[t].result = GenSendResult(task[t])
       /\ task[t].op = "genEvt" => task[t].result = GenEvtResult(task[t])
       /\ task[t].op = "sendEvt" => task[t].result = SendEvtResult(task[t])

\* C17: scheduleEventCertificateGeneration arms no timer and returns a null
\* handle when the delay to the event's generation time is not strictly positive,
\* and every timer it arms, the generation timer and the chained send timer, is
\* armed with a strictly positive delay.
C17_PositiveDelay ==
  /\ timer.gen # "none" => timer.genDelay > 0 /\ timer.handle = "timeout"
  /\ timer.send # "none" => timer.sendDelay > 0
  /\ (timer.called /\ timer.gen = "none") => timer.handle = "null"

\* C18: once the handle has been cancelled no fire of the trigger begins, neither
\* the generation fire nor the chained dispatch fire.
C18_CancelPreventsFire ==
  [][timer.cancelled =>
       /\ timer'.gen = "running" => timer.gen = "running"
       /\ timer'.send = "running" => timer.send = "running"]_vars

\* C19: a fire of the per-event trigger on a deleted event renders nothing, sends
\* no email and writes nothing to storage.
C19_DeletedEventNoOp ==
  \A t \in Tasks :
    (/\ ~eventExists
     /\ task[t].pc # "idle"
     /\ timer.gen = "running" \/ timer.send = "running")
    => /\ task[t].rendered = {}
       /\ task[t].emailed = {}
       /\ generatedCertificates = task[t].startRecs
       /\ {p \in Participants : certificateSent[p]} = task[t].startSent
       /\ \A p \in Participants : delivered[p] = 0

\* participants that had a record with sentAt set when the invocation began
SentAtStart(tk) ==
  {tk.startRecs[i].participantId : i \in {j \in DOMAIN tk.startRecs : tk.startRecs[j].sentAt}}

\* C20: a participant who has a record with sentAt set is neither rendered for
\* nor emailed by any later Generation or Dispatch Step invocation, whatever the
\* participant's certificateSent flag, and a record's sentAt, once set, stays set.
C20_SentAtExcludes ==
  \A t \in Tasks :
    /\ task[t].rendered \cap SentAtStart(task[t]) = {}
    /\ task[t].emailed \cap SentAtStart(task[t]) = {}
    /\ \A i \in DOMAIN task[t].startRecs :
         task[t].startRecs[i].sentAt => generatedCertificates[i].sentAt

\* time of day of an instant in Asia/Kolkata, in half hours
TimeOfDayIST(t) == (t + ISTOffset) % HalfHoursPerDay

\* the event is dated after today, or today and the generation time has not come
Premature ==
  \/ CivilDayIST(eventDate) > CivilDayIST(now)
  \/ CivilDayIST(eventDate) = CivilDayIST(now) /\ TimeOfDayIST(now) < GenSlotEarlier

\* C21: generateCertificatesForNewParticipants, whoever calls it, renders nothing
\* and creates no record for an event dated after today, nor for an event dated
\* today when called before the generation time.
C21_NoPrematureGeneration ==
  \A t \in Tasks :
    (task[t].op = "helperGen" /\ Premature)
    => /\ task[t].rendered = {}
       /\ task[t].pc # "loop" /\ task[t].pc # "save"
       /\ generatedCertificates = task[t].startRecs

\* the tolerance the claim names, in minutes
ClaimedTolerance == 2

RevisionTolerance(variant) == IF variant = "part_001" THEN 2 ELSE 1

C23_SentPersistedBeforeNext ==
  /\ \A t \in Tasks :
       (task[t].op \in SendOps /\ task[t].pc = "loop")
       => \A p \in task[t].emailOk : certificateSent[p]
  /\ \A p \in Participants : delivered[p] <= 1

\* C24: for an uncancelled per-event trigger armed before the generation time,
\* the generation fire invokes the Generation Step and, once that has completed,
\* the chained one-shot for the Dispatch Step is armed, running or has fired,
\* however long the Generation Step took.
C24_PerEventChain ==
  /\ timer.gen = "running" => \E t \in Tasks : task[t].op = "helperGen"
  /\ (timer.variant = "earlier" /\ ~timer.cancelled /\ timer.genDelay > 0
        /\ timer.gen = "fired")
     => timer.send \in {"armed", "running", "fired"}

\* C25: when two Generation Step invocations for the event, begun on an empty
\* template, interleave at their await points, the template ends with exactly
\* one record for every participant one of them rendered successfully.
C25_OverlappingGenerationIdempotent ==
  (\A t \in Tasks :
     /\ task[t].op = "helperGen" /\ task[t].pc = "done"
     /\ task[t].startRecs = <<>>
     /\ task[t].result.kind = "counts")
  => \A p \in Participants :
       (\E t \in Tasks : p \in task[t].rendered \ task[t].renderFailed)
       => CountRecs(generatedCertificates, p) = 1

\* C26: a generation-only invocation that reaches its loop writes the template
\* once, in the step that follows its last render; until then storage holds no
\* record it created; an invocation that returns at once (event or template not
\* found, nothing pending) writes nothing.
C26_BatchedTemplatePersistence ==
  [][\A t \in Tasks :
       (task[t].op \in GenOnlyOps \/ task'[t].op \in GenOnlyOps)
       => /\ (task[t].pc = "idle" /\ task'[t].pc # "idle")
             => /\ generatedCertificates' = generatedCertificates
                /\ task'[t].pc \in {"loop", "done"}
          /\ (task[t].pc = "loop" /\ task'[t] # task[t])
             => /\ generatedCertificates' = generatedCertificates
                /\ generatedCertificates = task[t].startRecs
                /\ task'[t].pc = (IF Len(task[t].queue) = 1 THEN "save" ELSE "loop")
          /\ (task[t].pc = "save" /\ task'[t] # task[t])
             => /\ generatedCertificates = task[t].startRecs
                /\ task[t].queue = <<>>
                /\ task'[t].pc = "done"
          /\ (task[t].pc = "done" /\ task'[t] # task[t])
             => /\ generatedCertificates' = generatedCertificates
                /\ task'[t].pc = "idle"]_vars

\* an invocation rendered two participants and its one write stored both records
C26_Witness ==
  \E t \in Tasks :
    /\ task[t].op \in GenOnlyOps
    /\ task[t].pc = "done"
    /\ Cardinality(task[t].rendered) = 2
    /\ Len(generatedCertificates) = Len(task[t].startRecs) + 2

\* the event's participants that, when the invocation began, had a record with
\* generatedAt set and sentAt absent and did not have certificateSent = true
DispatchPending(tk) ==
  {p \in Members :
     /\ p \notin tk.startSent
     /\ \E i \in DOMAIN tk.startRecs :
          /\ tk.startRecs[i].participantId = p
          /\ tk.startRecs[i].generatedAt
          /\ ~tk.startRecs[i].sentAt}

\* C27: the participants a Dispatch Step emails, and counts in total, are exactly
\* the event's participants with a record that has generatedAt set and sentAt
\* absent and with certificateSent false; a participant without a record is
\* neither emailed nor counted.
C27_DispatchPendingSet ==
  \A t \in Tasks :
    (task[t].op \in SendOps /\ task[t].pc = "done" /\ task[t].result.kind = "counts")
    => /\ task[t].emailed = DispatchPending(task[t])
       /\ task[t].result.total = Cardinality(DispatchPending(task[t]))

\* the event's participants that, when the invocation began, had no record under
\* the template and did not have certificateSent = true
GenerationPending(tk) ==
  {p \in Members :
     /\ p \notin tk.startSent
     /\ CountRecs(tk.startRecs, p) = 0}

\* C28: a Generation Step calls the renderer for a participant if and only if
\* the participant belongs to the event, has no record under the template and
\* does not have certificateSent = true.
C28_GenerationPendingSet ==
  \A t \in Tasks :
    (/\ task[t].op \in GenOnlyOps /\ task[t].ids = {}
     /\ task[t].pc = "done" /\ task[t].result.kind = "counts"
     /\ eventExists /\ hasTemplate)
    => task[t].rendered = GenerationPending(task[t])

\* the participants a call with participantIds = ids may render: those of the
\* event, without certificateSent = true when it began, and in ids unless ids is
\* empty
Restricted(tk) ==
  {p \in Members : p \notin tk.startSent /\ (tk.ids = {} \/ p \in tk.ids)}

\* identities of the records storage holds beyond those the invocation found
NewRecordIds(tk) ==
  {generatedCertificates[i].participantId :
     i \in {j \in DOMAIN generatedCertificates : j > Len(tk.startRecs)}}

\* C29: generateCertificatesForNewParticipants called with a non-empty
\* participantIds renders and records only participants in that set that belong
\* to the event and do not have certificateSent = true, ignoring the identities
\* of other events' participants; with an empty or absent set it takes all the
\* event's participants without certificateSent = true.
C29_RestrictedGeneration ==
  \A t \in Tasks :
    task[t].op = "helperGen"
    => /\ task[t].rendered \subseteq Restricted(task[t])
       /\ NewRecordIds(task[t]) \subseteq Restricted(task[t])
       /\ (task[t].pc = "done" /\ task[t].result.kind = "counts")
          => /\ task[t].rendered = Restricted(task[t])
             /\ NewRecordIds(task[t]) = task[t].rendered \ task[t].renderFailed

\* a call naming a participant of the event and one of another event has
\* rendered and recorded the former only
C29_Witness ==
  \E t \in Tasks :
    /\ task[t].op = "helperGen" /\ task[t].pc = "done"
    /\ task[t].ids \cap Members # {}
    /\ task[t].ids \ Members # {}
    /\ NewRecordIds(task[t]) = task[t].ids \cap Members

\* an invocation of a certificateHelper step has made at most one render or
\* email call per participant it selected, and is over with a result
StepBounded(tk) ==
  /\ Len(tk.results) + Len(tk.queue) = Cardinality(tk.pending)
  /\ tk.rendered \cup tk.emailed \subseteq tk.pending
  /\ \A p \in Participants : tk.attempts[p] <= 1
  /\ tk.pc = "done" => tk.result.kind # "none"

\* a firing has invoked the step at most once per event of today
FiringBounded ==
  /\ job.invoked \subseteq job.today
  /\ job.pc = "loop" => Len(job.queue) + Cardinality(job.invoked) = Cardinality(job.today)
  /\ job.pc = "await" =>
       Len(job.queue) + Cardinality(job.invoked) = Cardinality(job.today) + 1
  /\ job.pc = "done" /\ job.kind # "none" => job.invoked = job.today

\* C30: provided every render, email and storage call returns or throws, every
\* invocation of a certificateHelper step and every firing of a recurring job
\* terminates, the step with a result, after at most one render or email call
\* per pending participant and one step invocation per event qualifying today.
C30_Termination ==
  /\ [](FiringBounded /\ \A t \in Tasks : task[t].op # "idle" => StepBounded(task[t]))
  /\ \A t \in Tasks : (task[t].pc \in {"loop", "save"}) ~> (task[t].pc = "done")
  /\ (job.pc \in {"loop", "await"}) ~> (job.pc = "done")

\* the send job is over after invoking the step for the event and for another
\* event of today, and an email was delivered
C30_Witness ==
  /\ job.kind = "scheduleCertificateSending" /\ job.pc = "done"
  /\ 1 \in job.invoked /\ Cardinality(job.invoked) >= 2
  /\ \E p \in Participants : delivered[p] > 0

\* C31: generateCertificatesForNewParticipants called with the event alone, for
\* an event dated before today that has a template, goes on to render every
\* participant of the event without certificateSent = true, whatever the time
\* of day.
C31_PastEventsProcessed ==
  \A t \in Tasks :
    (/\ task[t].op = "helperGen" /\ task[t].ids = {}
     /\ eventExists /\ hasTemplate
     /\ CivilDayIST(eventDate) < CivilDayIST(now)
     /\ Members \ task[t].startSent # {})
    => /\ task[t].pending = Members \ task[t].startSent
       /\ task[t].pc \in {"loop", "save", "done"}
       /\ task[t].result.kind # "scheduled"
       /\ task[t].pc \in {"save", "done"} => task[t].rendered = task[t].pending

\* an event dated yesterday has been rendered for all its participants in a
\* call made before the generation time of day
C31_Witness ==
  \E t \in Tasks :
    /\ task[t].op = "helperGen" /\ task[t].ids = {} /\ task[t].pc = "done"
    /\ CivilDayIST(eventDate) < CivilDayIST(now)
    /\ TimeOfDayIST(now) < GenSlotEarlier
    /\ task[t].rendered = Members /\ Members # {}
    /\ task[t].result.kind = "counts"

\* C32: sendCertificateEmail returns success = false only when no email was
\* handed to the transport, and success = true only with the participant's
\* certificateSent persisted; a participant save that fails after the transport
\* took the email is not reported as a failed send.
C32_TruthfulDelivery ==
  [][\A t \in Tasks : \A p \in Participants :
       (/\ task'[t].op \in SendOps
        /\ task'[t].attempts[p] = task[t].attempts[p] + 1)
       => IF task'[t].sentCount = task[t].sentCount + 1
          THEN certificateSent'[p]
          ELSE delivered' = delivered]_vars

\* C33: in every result of a certificateHelper step that carries counts, total
\* is the number of per-participant results, successful the number of those
\* with success = true, failed = total - successful, and
\* 0 <= successful <= total.
C33_CountConsistency ==
  \A t \in Tasks :
    (/\ task[t].op \in {"helperGen", "helperSend"}
     /\ task[t].pc = "done" /\ task[t].result.kind = "counts")
    => LET r == task[t].result
       IN /\ r.total = Len(task[t].results)
          /\ r.successful = CountTrue(task[t].results)
          /\ r.failed = r.total - r.successful
          /\ 0 <= r.successful /\ r.successful <= r.total

\* a Dispatch Step returned counts with one success and one failure
C33_Witness ==
  \E t \in Tasks :
    /\ task[t].op = "helperSend" /\ task[t].pc = "done"
    /\ task[t].result.kind = "counts"
    /\ task[t].result.total = 2
    /\ task[t].result.successful = 1
    /\ task[t].result.failed = 1

\* C34: every record of the template that has sentAt set has generatedAt set,
\* after any sequence of the generation-only steps, the send-only steps and
\* generateAndSendCertificatesForEvent.
C34_LifecycleOrder ==
  \A i \in DOMAIN generatedCertificates :
    generatedCertificates[i].sentAt => generatedCertificates[i].generatedAt

\* C35: whenever no step invocation is in progress and the event has a
\* template, a participant of the event has certificateSent = true iff one of
\* the participant's records has sentAt set, and no record of a participant with
\* certificateSent = true has sentAt absent.
C35_SentSignalsAgree ==
  ((\A t \in Tasks : task[t].pc = "idle") /\ hasTemplate)
  => \A p \in Members :
       /\ certificateSent[p] <=>
            \E i \in DOMAIN generatedCertificates :
              generatedCertificates[i].participantId = p /\ generatedCertificates[i].sentAt
       /\ certificateSent[p] =>
            \A i \in DOMAIN generatedCertificates :
              generatedCertificates[i].participantId = p => generatedCertificates[i].sentAt

\* an email is attempted for participant p by the step of task t
EmailAttempted(t, p) ==
  /\ task'[t].op = task[t].op
  /\ task[t].pc = "loop"
  /\ task'[t].attempts[p] = task[t].attempts[p] + 1

\* the record the step of task t reads for participant p carries a file path
PathAvailable(t, p) ==
  CASE task[t].op = "genSend" ->
         p \in task'[t].rendered \ task'[t].renderFailed
    [] task[t].op = "helperSend" ->
         LET idx == FindIndex(task[t].doc, p)
         IN idx # 0 /\ task[t].doc[idx].certificatePath
    [] task[t].op = "sendEvt" ->
         LET i == Head(task[t].queue)
         IN /\ i \in DOMAIN task[t].doc
            /\ task[t].doc[i].participantId = p
            /\ task[t].doc[i].certificatePath
    [] OTHER -> FALSE

\* C36: an email is attempted for a participant only when a rendered
\* certificate file is at hand: the render of the same invocation succeeded
\* (generateAndSendCertificatesForEvent) or the record read for the participant
\* has a certificatePath (sendGeneratedCertificates, sendCertificatesForEvent);
\* a participant with no record or a record without a path is not emailed.
C36_NoEmailWithoutCertificate ==
  [][\A t \in Tasks : \A p \in Participants :
       EmailAttempted(t, p) => PathAvailable(t, p)]_vars

\* sendGeneratedCertificates has emailed one participant and skipped another
\* that has no record
C36_Witness ==
  \E t \in Tasks : \E p, q \in Members :
    /\ task[t].op = "helperSend"
    /\ task[t].pc = "done"
    /\ {p, q} \subseteq task[t].pending
    /\ task[t].attempts[p] = 1
    /\ FindIndex(task[t].doc, q) = 0
    /\ task[t].attempts[q] = 0
    /\ task[t].results = <<TRUE, FALSE>> \/ task[t].results = <<FALSE, TRUE>>

\* the participants whose email was delivered and whose certificateSent became
\* true during the invocation of task t
SentDuring(t) ==
  {p \in task[t].emailOk : certificateSent[p] /\ p \notin task[t].startSent}

\* what scheduleCertificateSending adds to totalSuccessful for a result
AddedToTotals(r) == IF r.success = "true" THEN r.successful ELSE 0

\* C37: when sendGeneratedCertificates returns, the successful count it
\* reports, and that the recurring trigger adds to its totals, is the number of
\* participants emailed and marked certificateSent during the invocation, also
\* when the final template save failed.
C37_DispatchReportsWhatItDid ==
  \A t \in Tasks :
    (task[t].op = "helperSend" /\ task[t].pc = "done")
    => /\ task[t].result.successful = Cardinality(SentDuring(t))
       /\ AddedToTotals(task[t].result) = Cardinality(SentDuring(t))

\* the records of participant p in a list of records
RecordsOf(recs, p) == {i \in DOMAIN recs : recs[i].participantId = p}

\* generateCertificatesForEvent has rendered for p, which had a record when the
\* invocation began
Regenerated(t, p) ==
  /\ task[t].op = "genEvt"
  /\ p \in task[t].rendered \ task[t].renderFailed
  /\ FindIndex(task[t].startRecs, p) # 0

\* C38: when generateCertificatesForEvent renders for a participant that has a
\* record already, it replaces that record in place and adds none, the record's
\* sentAt is what it was before, and once saved a record that was sent is not
\* in the pending set of sendCertificatesForEvent.
C38_RegenerationPreservesSent ==
  \A t \in Tasks : \A p \in Participants :
    Regenerated(t, p)
    => LET idx == FindIndex(task[t].startRecs, p)
       IN /\ task[t].doc[idx].participantId = p
          /\ task[t].doc[idx].generatedAt
          /\ task[t].doc[idx].sentAt = task[t].startRecs[idx].sentAt
          /\ RecordsOf(task[t].doc, p) = RecordsOf(task[t].startRecs, p)
          /\ (task[t].pc = "done" /\ task[t].result.kind = "counts")
               => /\ generatedCertificates[idx] = task[t].doc[idx]
                  /\ RecordsOf(generatedCertificates, p) = RecordsOf(task[t].startRecs, p)
                  /\ task[t].startRecs[idx].sentAt => idx \notin PendingSends

\* a record that was sent has been replaced and saved
C38_Witness ==
  \E t \in Tasks : \E p \in Members :
    /\ Regenerated(t, p)
    /\ task[t].pc = "done" /\ task[t].result.kind = "counts"
    /\ task[t].startRecs[FindIndex(task[t].startRecs, p)].sentAt
    /\ ~task[t].startRecs[FindIndex(task[t].startRecs, p)].generatedAt
    /\ generatedCertificates[FindIndex(task[t].startRecs, p)].generatedAt
    /\ Len(generatedCertificates) = Len(task[t].startRecs)

====
